---- MODULE Spec2Model ----
(***************************************************************************)
(* A model of pkg/sql/db.go: the backend node (type DB) with its           *)
(* hysteresis health monitor (ping/_ping), its query/execute operations    *)
(* wrapped in the connection filter chains, the transaction starts         *)
(* (Begin/XAStart), the weight setters and Close.                          *)
(*                                                                         *)
(* The resource pool (third_party/pools) and the transaction handle (Tx)   *)
(* are not part of the modelled source file; they are modelled from the    *)
(* capability surface the specification gives them (acquire, release,      *)
(* close; a handle releases its connection once, on close).                *)
(***************************************************************************)
EXTENDS Integers, Sequences, FiniteSets, TLC

\* ---------------------------------------------------------------- bounds
MaxThreshold == 3      \* pingTimesForChangeStatus ranges over 1..MaxThreshold
PoolCap == 1           \* connections the pool was sized with
MaxCap == 2            \* capacities passed to SetCapacity range over 0..MaxCap
MaxCloseCalls == 2     \* calls of pool.Close that are told apart (2 stands for 2 or more)
MaxWeight == 9         \* weights passed to the setters range over 0..MaxWeight
MaxFilters == 1        \* length of each filter chain under concurrent callers
MaxChain == 2          \* length of each filter chain under a single caller
MaxFields == 1         \* column definitions read by ExecuteFieldList
NumProcs == 2          \* concurrent callers

Procs == 1..NumProcs

\* -------------------------------------------------------------- constants
\* proto.DBStatus is a byte with two values, told apart by the low bit;
\* NewDB starts a node as Running.
Running == 1

Nil == "nil"

VARIABLES
    status,                    \* db.status
    pingTimesForChangeStatus,  \* db.pingTimesForChangeStatus
    pingCount,                 \* db.pingCount
    isMaster,                  \* db.isMaster
    writeWeight,               \* db.writeWeight
    readWeight,                \* db.readWeight
    connectionPreFilters,      \* db.connectionPreFilters: what each filter returns
    connectionPostFilters,     \* db.connectionPostFilters
    inflightRequests,          \* db.inflightRequests
    poolAvailable,             \* idle connections of db.pool
    poolCapacity,              \* db.pool.Capacity()
    poolClosed,                \* db.pool.IsClosed()
    poolCloseCalls,            \* how many times db.pool.Close() was invoked
    monPc,                     \* where the goroutine started by NewDB stands
    monErr,                    \* _ping's named result err
    ticks,                     \* the last completed ticks of the monitor, oldest first
    failRun,                   \* completed ticks in a row that ended with an error
    monPinged,                 \* the current (or last) tick called conn.Ping
    closePc,                   \* where the caller of Close stands
    call,                      \* per caller: the operation in progress and what it did
    tx,                        \* per caller: it owns an open transaction handle
    lastSet                    \* the last weight setter called, with the values before it

vars == <<status, pingTimesForChangeStatus, pingCount, isMaster, writeWeight,
          readWeight, connectionPreFilters, connectionPostFilters,
          inflightRequests, poolAvailable, poolCapacity, poolClosed,
          poolCloseCalls,
          monPc, monErr, ticks, failRun, monPinged, closePc, call, tx,
          lastSet>>

nodeVars == <<status, pingTimesForChangeStatus, pingCount>>
weightVars == <<isMaster, writeWeight, readWeight, lastSet>>
filterVars == <<connectionPreFilters, connectionPostFilters>>
poolVars == <<poolAvailable, poolCapacity, poolClosed, poolCloseCalls>>
monVars == <<monPc, monErr, ticks, failRun, monPinged>>
closeVars == <<closePc>>
callVars == <<call, tx>>

\* ------------------------------------------------------------------ pool
\* pool.Get succeeds only on an open pool with an idle connection.
PoolCanGet == ~poolClosed /\ poolAvailable > 0

\* pool.Get with context.Background(): fails at once on a closed pool,
\* otherwise waits for an idle connection.
PoolGetBlocking(ok) ==
    IF ok THEN PoolCanGet /\ poolAvailable' = poolAvailable - 1
          ELSE poolClosed /\ poolAvailable' = poolAvailable

\* pool.Get with a caller's context: as above, and it also fails when the
\* context is cancelled or its deadline passes, whatever the pool holds.
PoolGetCtx(ok) ==
    IF ok THEN PoolCanGet /\ poolAvailable' = poolAvailable - 1
          ELSE poolAvailable' = poolAvailable

\* pool.Put returns one connection to the idle set.
PoolPut == poolAvailable' = poolAvailable + 1

\* pool.SetCapacity resizes an open pool: growing adds idle connections,
\* shrinking takes them from the idle set and so waits until enough of them
\* have been returned.
PoolSetCapacity(capacity) ==
    /\ ~poolClosed
    /\ poolAvailable + capacity - poolCapacity >= 0
    /\ poolAvailable' = poolAvailable + capacity - poolCapacity
    /\ poolCapacity' = capacity

\* pool.Close marks the pool closed; its calls are counted up to
\* MaxCloseCalls, so that Close's loop can go round for ever.
PoolClose ==
    /\ poolClosed' = TRUE
    /\ poolCloseCalls' = IF poolCloseCalls < MaxCloseCalls
                            THEN poolCloseCalls + 1 ELSE poolCloseCalls

\* --------------------------------------------------------- health monitor
\* Go's % truncates toward zero: the remainder has the dividend's sign.
GoRem(a, b) == IF a >= 0 THEN a % b ELSE -((-a) % b)

\* ^db.status & 1 on a byte: the low bit, complemented.
ToggleStatus(s) == 1 - (s % 2)

\* The deferred function's Inc/Dec: one vote against the current status
\* (a failure while Running, a success otherwise), or one vote for it.
Vote(st, cnt, failed) ==
    IF st = Running
      THEN (IF failed THEN cnt + 1 ELSE cnt - 1)
      ELSE (IF ~failed THEN cnt + 1 ELSE cnt - 1)

\* A variant that swaps to 0 only on a positive multiple.
CountAfterPositiveMultiple(cur, t) ==
    IF GoRem(cur, t) = 0 /\ cur > 0 THEN 0 ELSE cur

\* pingCount after the deferred function: swapped to 0 on a multiple.
CountAfter(cur, t) == IF GoRem(cur, t) = 0 THEN 0 ELSE cur

\* A variant that toggles on every multiple, the sign test left out.
StatusAfterAnyMultiple(st, cur, t) ==
    IF GoRem(cur, t) = 0 THEN ToggleStatus(st) ELSE st

\* A variant that resets and toggles only past the threshold.
StatusAfterPastThreshold(st, cur, t) ==
    IF GoRem(cur, t) = 0 /\ cur > t THEN ToggleStatus(st) ELSE st

\* status after the deferred function: toggled on a positive multiple.
StatusAfter(st, cur, t) ==
    IF GoRem(cur, t) = 0 /\ cur > 0 THEN ToggleStatus(st) ELSE st

\* The record of one tick: the state it found, its outcome, the counter it loaded.
Tick(st, cnt, failed) ==
    [st |-> st, c |-> cnt, failed |-> failed, cur |-> Vote(st, cnt, failed)]

\* The monitor keeps the ticks of the last pingTimesForChangeStatus rounds.
Remember(h, rec, t) ==
    IF Len(h) < t THEN Append(h, rec) ELSE Append(Tail(h), rec)

\* The run of failed ticks, counted up to 2t - 1.
FailRunAfter(n, t) == IF n < 2 * t - 1 THEN n + 1 ELSE n

\* The tick at its vote failed: it got no connection, or its conn.Ping
\* returned an error.
TickFailed == ~monPinged \/ monErr

\* A variant whose acquisition error does not reach the vote.
PingGetDroppingError ==
    /\ monPc = "timer"
    /\ \E ok \in BOOLEAN :
         /\ PoolGetBlocking(ok)
         /\ monErr' = FALSE
         /\ monPc' = IF ok THEN "ping" ELSE "vote"
    /\ monPinged' = FALSE
    /\ UNCHANGED <<nodeVars, weightVars, filterVars, inflightRequests,
                   poolCapacity, poolClosed, poolCloseCalls, ticks, failRun, closeVars,
                   callVars>>

\* ping: the timer fires and _ping starts with pool.Get(context.Background()).
PingGet ==
    /\ monPc = "timer"
    /\ \E ok \in BOOLEAN :
         /\ PoolGetBlocking(ok)
         /\ monErr' = ~ok
         /\ monPc' = IF ok THEN "ping" ELSE "vote"
    /\ monPinged' = FALSE
    /\ UNCHANGED <<nodeVars, weightVars, filterVars, inflightRequests,
                   poolCapacity, poolClosed, poolCloseCalls, ticks, failRun, closeVars,
                   callVars>>

\* _ping: conn.Ping on the acquired connection; its error is _ping's result.
PingConn ==
    /\ monPc = "ping"
    /\ \E failed \in BOOLEAN : monErr' = failed
    /\ monPc' = "put"
    /\ monPinged' = TRUE
    /\ UNCHANGED <<nodeVars, weightVars, filterVars, inflightRequests,
                   poolVars, ticks, failRun, closeVars, callVars>>

\* _ping: the deferred db.pool.Put(r), run before the vote.
PingPut ==
    /\ monPc = "put"
    /\ PoolPut
    /\ monPc' = "vote"
    /\ UNCHANGED <<nodeVars, weightVars, filterVars, inflightRequests,
                   poolCapacity, poolClosed, poolCloseCalls, monErr, ticks, failRun,
                   monPinged, closeVars, callVars>>

\* _ping: the deferred vote, then ping resets the timer.
PingVote ==
    /\ monPc = "vote"
    /\ LET cur == Vote(status, pingCount, monErr) IN
         /\ pingCount' = CountAfter(cur, pingTimesForChangeStatus)
         /\ status' = StatusAfter(status, cur, pingTimesForChangeStatus)
         /\ ticks' = Remember(ticks, Tick(status, pingCount, monErr),
                              pingTimesForChangeStatus)
    /\ failRun' = IF TickFailed
                     THEN FailRunAfter(failRun, pingTimesForChangeStatus)
                     ELSE 0
    /\ monPc' = "timer"
    /\ UNCHANGED <<pingTimesForChangeStatus, weightVars, filterVars,
                   inflightRequests, poolVars, monErr, monPinged, closeVars,
                   callVars>>

ping == PingGet \/ PingConn \/ PingPut \/ PingVote

\* ------------------------------------------------------------ SetCapacity
\* return db.pool.SetCapacity(capacity)
SetCapacity(capacity) ==
    /\ PoolSetCapacity(capacity)
    /\ UNCHANGED <<nodeVars, weightVars, filterVars, inflightRequests,
                   poolClosed, poolCloseCalls, monVars, closeVars, callVars>>

\* ------------------------------------------------------------------ Close
\* Close is called.
CloseCall ==
    /\ closePc = "idle"
    /\ closePc' = "test"
    /\ UNCHANGED <<nodeVars, weightVars, filterVars, inflightRequests,
                   poolVars, monVars, callVars>>

\* The loop condition: db.inflightRequests.Load() == 0.
CloseTest ==
    /\ closePc = "test"
    /\ closePc' = IF inflightRequests = 0 THEN "close" ELSE "returned"
    /\ UNCHANGED <<nodeVars, weightVars, filterVars, inflightRequests,
                   poolVars, monVars, callVars>>

\* The loop body: db.pool.Close(), then the condition again.
CloseBody ==
    /\ closePc = "close"
    /\ PoolClose
    /\ closePc' = "test"
    /\ UNCHANGED <<nodeVars, weightVars, filterVars, inflightRequests,
                   poolAvailable, poolCapacity, monVars, callVars>>

Close == CloseCall \/ CloseTest \/ CloseBody

\* ---------------------------------------------------------------- weights
\* A variant without the isMaster guard.
SetWriteWeightUnguarded(weight) ==
    /\ writeWeight' = weight
    /\ lastSet' = [op |-> "SetWriteWeight", arg |-> weight,
                   w |-> writeWeight, r |-> readWeight]
    /\ UNCHANGED <<nodeVars, isMaster, readWeight, filterVars, inflightRequests,
                   poolVars, monVars, closeVars, callVars>>

SetWriteWeight(weight) ==
    /\ writeWeight' = IF isMaster THEN weight ELSE writeWeight
    /\ lastSet' = [op |-> "SetWriteWeight", arg |-> weight,
                   w |-> writeWeight, r |-> readWeight]
    /\ UNCHANGED <<nodeVars, isMaster, readWeight, filterVars, inflightRequests,
                   poolVars, monVars, closeVars, callVars>>

SetReadWeight(weight) ==
    /\ readWeight' = weight
    /\ lastSet' = [op |-> "SetReadWeight", arg |-> weight,
                   w |-> writeWeight, r |-> readWeight]
    /\ UNCHANGED <<nodeVars, isMaster, writeWeight, filterVars, inflightRequests,
                   poolVars, monVars, closeVars, callVars>>

\* ------------------------------------------------------------- filter chains
NoErr == [kind |-> "nil", idx |-> 0]
Err(kind, i) == [kind |-> kind, idx |-> i]

\* What one invoked filter is remembered by: its index in the chain (from
\* 1) and what it returned.
Invoked(i, ret) == [idx |-> i, ret |-> ret]

\* db.connectionPreFilters = filters. The store is not synchronised with the
\* loops of doConnectionPreFilter: an operation in its loop reads the old or
\* the new chain at each of its reads. Each caller that has an operation
\* begun or returned is marked as having seen a store since it began.
SetConnectionPreFilters(filters) ==
    /\ connectionPreFilters' = filters
    /\ call' = [p \in Procs |->
                  IF call[p].pc = "idle" THEN call[p]
                  ELSE [call[p] EXCEPT !.stored = TRUE]]
    /\ UNCHANGED <<nodeVars, weightVars, connectionPostFilters,
                   inflightRequests, poolVars, monVars, closeVars, tx>>

\* db.connectionPostFilters = filters.
SetConnectionPostFilters(filters) ==
    /\ connectionPostFilters' = filters
    /\ call' = [p \in Procs |->
                  IF call[p].pc = "idle" THEN call[p]
                  ELSE [call[p] EXCEPT !.stored = TRUE]]
    /\ UNCHANGED <<nodeVars, weightVars, connectionPreFilters,
                   inflightRequests, poolVars, monVars, closeVars, tx>>

\* ------------------------------------------------- the steps of an operation
\* A caller with no operation in progress.
NoCall == [op |-> Nil, pc |-> "idle", err |-> NoErr, held |-> FALSE,
           gets |-> 0, puts |-> 0, backend |-> 0, pre |-> <<>>, post |-> <<>>,
           res |-> Nil, warn |-> 0, fields |-> 0, panicked |-> FALSE,
           i |-> 1, stored |-> FALSE]

InflightOps == {"UseDB", "ExecuteFieldList", "Query", "QueryDirectly",
                "ExecuteStmt", "ExecuteSql", "ExecuteSqlDirectly"}

Returned(p) == call[p].pc \in {"idle", "done"}

Fresh(o) == [NoCall EXCEPT !.op = o]

\* db.inflightRequests.Inc(), the first statement of an operation that counts.
InflightInc(p, o) ==
    /\ Returned(p)
    /\ inflightRequests' = inflightRequests + 1
    /\ call' = [call EXCEPT ![p] = [Fresh(o) EXCEPT !.pc = "get"]]
    /\ UNCHANGED <<nodeVars, weightVars, filterVars, poolVars, monVars,
                   closeVars, tx>>

\* A variant whose failed acquisition still runs a release to the pool.
AcquireReleasingOnFailure(p, c, ctx, okPc, failPc) ==
    /\ \E ok \in BOOLEAN :
         /\ IF ctx THEN PoolGetCtx(ok) ELSE PoolGetBlocking(ok)
         /\ call' = [call EXCEPT ![p] =
                IF ok THEN [c EXCEPT !.pc = okPc, !.held = TRUE, !.gets = @ + 1]
                      ELSE [c EXCEPT !.pc = "put", !.err = Err("acquire", 0)]]
    /\ UNCHANGED <<nodeVars, weightVars, filterVars, inflightRequests,
                   poolCapacity, poolClosed, poolCloseCalls, monVars, closeVars, tx>>

\* r, err := db.pool.Get(ctx) on the call record c; on an error the
\* operation returns it (after its deferred calls, from failPc on).
Acquire(p, c, ctx, okPc, failPc) ==
    /\ \E ok \in BOOLEAN :
         /\ IF ctx THEN PoolGetCtx(ok) ELSE PoolGetBlocking(ok)
         /\ call' = [call EXCEPT ![p] =
                IF ok THEN [c EXCEPT !.pc = okPc, !.held = TRUE, !.gets = @ + 1]
                      ELSE [c EXCEPT !.pc = failPc, !.err = Err("acquire", 0)]]
    /\ UNCHANGED <<nodeVars, weightVars, filterVars, inflightRequests,
                   poolCapacity, poolClosed, poolCloseCalls, monVars, closeVars, tx>>

\* A variant whose acquisition failure returns without the deferred Dec.
GetSkippingDec(p, ctx) ==
    /\ call[p].pc = "get"
    /\ Acquire(p, call[p], ctx, "body", "done")

\* pool.Get as the second statement, after the Inc.
Get(p, ctx) ==
    /\ call[p].pc = "get"
    /\ Acquire(p, call[p], ctx, "body", "dec")

\* pool.Get as the first statement of an operation that does not count.
GetFirst(p, o, ctx) ==
    /\ Returned(p)
    /\ Acquire(p, Fresh(o), ctx, "body", "done")

\* doConnectionPreFilter, the loop condition i < len(db.connectionPreFilters):
\* past the end the function returns nil and the operation goes on.
PreLoopTest(p) ==
    /\ call[p].pc = "body"
    /\ call' = [call EXCEPT ![p] =
          IF call[p].i <= Len(connectionPreFilters)
            THEN [@ EXCEPT !.pc = "pre"]
            ELSE [@ EXCEPT !.pc = "exec", !.i = 1]]
    /\ UNCHANGED <<nodeVars, weightVars, filterVars, inflightRequests,
                   poolVars, monVars, closeVars, tx>>

\* A variant whose loop goes on after a filter's error.
PreLoopBodyIgnoringErrors(p) ==
    /\ call[p].pc = "pre"
    /\ call' = [call EXCEPT ![p] =
          IF call[p].i > Len(connectionPreFilters)
            THEN [@ EXCEPT !.panicked = TRUE, !.pc = "put"]
            ELSE [@ EXCEPT !.pre = Append(@, Invoked(call[p].i,
                                      connectionPreFilters[call[p].i])),
                           !.i = @ + 1, !.pc = "body"]]
    /\ UNCHANGED <<nodeVars, weightVars, filterVars, inflightRequests,
                   poolVars, monVars, closeVars, tx>>

\* doConnectionPreFilter, the loop body: f := db.connectionPreFilters[i]
\* reads the chain again (a chain stored since the test that is too short
\* makes the index expression panic, and only the deferred calls run), then
\* f.PreHandle; its error is returned through the operation's
\* `return nil, 0, err`.
PreLoopBody(p) ==
    /\ call[p].pc = "pre"
    /\ call' = [call EXCEPT ![p] =
          IF call[p].i > Len(connectionPreFilters)
            THEN [@ EXCEPT !.panicked = TRUE, !.pc = "put"]
          ELSE IF connectionPreFilters[call[p].i] = "reject"
            THEN [@ EXCEPT !.pre = Append(@, Invoked(call[p].i, "reject")),
                           !.err = Err("pre", call[p].i), !.pc = "put"]
            ELSE [@ EXCEPT !.pre = Append(@, Invoked(call[p].i, "pass")),
                           !.i = @ + 1, !.pc = "body"]]
    /\ UNCHANGED <<nodeVars, weightVars, filterVars, inflightRequests,
                   poolVars, monVars, closeVars, tx>>

doConnectionPreFilter(p) == PreLoopTest(p) \/ PreLoopBody(p)

\* One call of the backend connection that returns a result and a warning
\* count (ExecuteWithWarningCount, PrepareQueryArgs), at pc from. With an
\* error the operation returns whatever result and count came with it.
Execute(p, from, okPc) ==
    /\ call[p].pc = from
    /\ \E ok \in BOOLEAN, r \in {Nil, "result"}, w \in 0..1 :
         call' = [call EXCEPT ![p] =
            IF ok
              THEN [@ EXCEPT !.backend = @ + 1, !.res = "result", !.warn = w,
                             !.pc = okPc]
              ELSE [@ EXCEPT !.backend = @ + 1, !.res = r, !.warn = w,
                             !.err = Err("backend", 0), !.pc = "put"]]
    /\ UNCHANGED <<nodeVars, weightVars, filterVars, inflightRequests,
                   poolVars, monVars, closeVars, tx>>

\* One call of the backend connection that returns only an error
\* (WriteComInitDB, WriteComFieldList, Ping), at pc from.
Send(p, from, okPc) ==
    /\ call[p].pc = from
    /\ \E ok \in BOOLEAN :
         call' = [call EXCEPT ![p] =
            IF ok THEN [@ EXCEPT !.backend = @ + 1, !.pc = okPc]
                  ELSE [@ EXCEPT !.backend = @ + 1, !.err = Err("backend", 0),
                                 !.pc = "put"]]
    /\ UNCHANGED <<nodeVars, weightVars, filterVars, inflightRequests,
                   poolVars, monVars, closeVars, tx>>

\* doConnectionPostFilter, the loop condition i < len(db.connectionPostFilters).
PostLoopTest(p) ==
    /\ call[p].pc = "post"
    /\ call' = [call EXCEPT ![p] =
          IF call[p].i <= Len(connectionPostFilters)
            THEN [@ EXCEPT !.pc = "postf"]
            ELSE [@ EXCEPT !.pc = "put"]]
    /\ UNCHANGED <<nodeVars, weightVars, filterVars, inflightRequests,
                   poolVars, monVars, closeVars, tx>>

\* A variant that returns result, warn, err after a post-filter's error.
PostLoopBodyKeepingResult(p) ==
    /\ call[p].pc = "postf"
    /\ call' = [call EXCEPT ![p] =
          IF call[p].i > Len(connectionPostFilters)
            THEN [@ EXCEPT !.panicked = TRUE, !.res = Nil, !.warn = 0,
                           !.pc = "put"]
          ELSE IF connectionPostFilters[call[p].i] = "reject"
            THEN [@ EXCEPT !.post = Append(@, Invoked(call[p].i, "reject")),
                           !.err = Err("post", call[p].i), !.pc = "put"]
            ELSE [@ EXCEPT !.post = Append(@, Invoked(call[p].i, "pass")),
                           !.i = @ + 1, !.pc = "post"]]
    /\ UNCHANGED <<nodeVars, weightVars, filterVars, inflightRequests,
                   poolVars, monVars, closeVars, tx>>

\* A variant that remembers a post-filter's error and goes on to the end of
\* the chain.
PostLoopBodyToEnd(p) ==
    /\ call[p].pc = "postf"
    /\ call' = [call EXCEPT ![p] =
          IF call[p].i > Len(connectionPostFilters)
            THEN [@ EXCEPT !.panicked = TRUE, !.res = Nil, !.warn = 0,
                           !.pc = "put"]
          ELSE IF connectionPostFilters[call[p].i] = "reject"
            THEN [@ EXCEPT !.post = Append(@, Invoked(call[p].i, "reject")),
                           !.res = Nil, !.warn = 0,
                           !.err = IF call[p].err = NoErr
                                     THEN Err("post", call[p].i) ELSE @,
                           !.i = @ + 1, !.pc = "post"]
            ELSE [@ EXCEPT !.post = Append(@, Invoked(call[p].i, "pass")),
                           !.i = @ + 1, !.pc = "post"]]
    /\ UNCHANGED <<nodeVars, weightVars, filterVars, inflightRequests,
                   poolVars, monVars, closeVars, tx>>

\* doConnectionPostFilter, the loop body: f := db.connectionPostFilters[i]
\* (panics on a chain that became too short), then f.PostHandle; its error
\* is returned through the operation's `return nil, 0, err`.
PostLoopBody(p) ==
    /\ call[p].pc = "postf"
    /\ call' = [call EXCEPT ![p] =
          IF call[p].i > Len(connectionPostFilters)
            THEN [@ EXCEPT !.panicked = TRUE, !.res = Nil, !.warn = 0,
                           !.pc = "put"]
          ELSE IF connectionPostFilters[call[p].i] = "reject"
            THEN [@ EXCEPT !.post = Append(@, Invoked(call[p].i, "reject")),
                           !.res = Nil, !.warn = 0,
                           !.err = Err("post", call[p].i), !.pc = "put"]
            ELSE [@ EXCEPT !.post = Append(@, Invoked(call[p].i, "pass")),
                           !.i = @ + 1, !.pc = "post"]]
    /\ UNCHANGED <<nodeVars, weightVars, filterVars, inflightRequests,
                   poolVars, monVars, closeVars, tx>>

doConnectionPostFilter(p) == PostLoopTest(p) \/ PostLoopBody(p)

\* db.pool.Put(r): deferred, or called on Begin's error path.
Put(p, next) ==
    /\ call[p].pc = "put"
    /\ PoolPut
    /\ call' = [call EXCEPT ![p] =
           [@ EXCEPT !.held = FALSE, !.puts = @ + 1, !.pc = next]]
    /\ UNCHANGED <<nodeVars, weightVars, filterVars, inflightRequests,
                   poolCapacity, poolClosed, poolCloseCalls, monVars, closeVars, tx>>

\* The deferred db.inflightRequests.Dec(), the last thing before the return.
InflightDec(p) ==
    /\ call[p].pc = "dec"
    /\ inflightRequests' = inflightRequests - 1
    /\ call' = [call EXCEPT ![p] = [@ EXCEPT !.pc = "done"]]
    /\ UNCHANGED <<nodeVars, weightVars, filterVars, poolVars, monVars,
                   closeVars, tx>>

\* ------------------------------------------------------------- operations
\* A variant that runs the pre-filter chain before WriteComInitDB.
UseDBFiltered(p) ==
    \/ InflightInc(p, "UseDB")
    \/ /\ call[p].op = "UseDB"
       /\ \/ Get(p, TRUE)
          \/ doConnectionPreFilter(p)
          \/ Send(p, "exec", "put")
          \/ Put(p, "dec")
          \/ InflightDec(p)

UseDB(p) ==
    \/ InflightInc(p, "UseDB")
    \/ /\ call[p].op = "UseDB"
       /\ \/ Get(p, TRUE)
          \/ Send(p, "body", "put")
          \/ Put(p, "dec")
          \/ InflightDec(p)

\* conn.ReadColumnDefinitions(): the column definitions, or an error.
ReadColumnDefinitions(p) ==
    /\ call[p].pc = "read"
    /\ \/ \E n \in 0..MaxFields :
            call' = [call EXCEPT ![p] =
                [@ EXCEPT !.backend = @ + 1, !.fields = n, !.pc = "copy"]]
       \/ call' = [call EXCEPT ![p] =
                [@ EXCEPT !.backend = @ + 1, !.err = Err("backend", 0),
                          !.pc = "put"]]
    /\ UNCHANGED <<nodeVars, weightVars, filterVars, inflightRequests,
                   poolVars, monVars, closeVars, tx>>

\* result := make([]proto.Field, 0, len(fields)); result[i] = field: the
\* slice has length 0, so the first assignment panics (index out of range)
\* and only the deferred calls run.
CopyFields(p) ==
    /\ call[p].pc = "copy"
    /\ call' = [call EXCEPT ![p] =
          IF call[p].fields > 0
            THEN [@ EXCEPT !.panicked = TRUE, !.pc = "put"]
            ELSE [@ EXCEPT !.res = "fields", !.pc = "put"]]
    /\ UNCHANGED <<nodeVars, weightVars, filterVars, inflightRequests,
                   poolVars, monVars, closeVars, tx>>

ExecuteFieldList(p) ==
    \/ InflightInc(p, "ExecuteFieldList")
    \/ /\ call[p].op = "ExecuteFieldList"
       /\ \/ Get(p, TRUE)
          \/ Send(p, "body", "read")
          \/ ReadColumnDefinitions(p)
          \/ CopyFields(p)
          \/ Put(p, "dec")
          \/ InflightDec(p)

Query(p) ==
    \/ InflightInc(p, "Query")
    \/ /\ call[p].op = "Query"
       /\ \/ Get(p, TRUE)
          \/ doConnectionPreFilter(p)
          \/ Execute(p, "exec", "post")
          \/ doConnectionPostFilter(p)
          \/ Put(p, "dec")
          \/ InflightDec(p)

QueryDirectly(p) ==
    \/ InflightInc(p, "QueryDirectly")
    \/ /\ call[p].op = "QueryDirectly"
       /\ \/ Get(p, FALSE)
          \/ Execute(p, "body", "put")
          \/ Put(p, "dec")
          \/ InflightDec(p)

ExecuteStmt(p) ==
    \/ InflightInc(p, "ExecuteStmt")
    \/ /\ call[p].op = "ExecuteStmt"
       /\ \/ Get(p, TRUE)
          \/ doConnectionPreFilter(p)
          \/ Execute(p, "exec", "post")
          \/ doConnectionPostFilter(p)
          \/ Put(p, "dec")
          \/ InflightDec(p)

ExecuteSql(p) ==
    \/ InflightInc(p, "ExecuteSql")
    \/ /\ call[p].op = "ExecuteSql"
       /\ \/ Get(p, TRUE)
          \/ doConnectionPreFilter(p)
          \/ Execute(p, "exec", "post")
          \/ doConnectionPostFilter(p)
          \/ Put(p, "dec")
          \/ InflightDec(p)

ExecuteSqlDirectly(p) ==
    \/ InflightInc(p, "ExecuteSqlDirectly")
    \/ /\ call[p].op = "ExecuteSqlDirectly"
       /\ \/ Get(p, FALSE)
          \/ Execute(p, "body", "put")
          \/ Put(p, "dec")
          \/ InflightDec(p)

\* A variant whose ping outcome is folded into the monitor's vote.
PingFeedingVote(p) ==
    \/ GetFirst(p, "Ping", FALSE)
    \/ /\ call[p].op = "Ping"
       /\ \/ /\ call[p].pc = "body"
             /\ \E ok \in BOOLEAN :
                  /\ call' = [call EXCEPT ![p] =
                        IF ok THEN [@ EXCEPT !.backend = @ + 1, !.pc = "put"]
                              ELSE [@ EXCEPT !.backend = @ + 1,
                                             !.err = Err("backend", 0),
                                             !.pc = "put"]]
                  /\ LET cur == Vote(status, pingCount, ~ok) IN
                       /\ pingCount' = CountAfter(cur, pingTimesForChangeStatus)
                       /\ status' = StatusAfter(status, cur,
                                                pingTimesForChangeStatus)
             /\ UNCHANGED <<pingTimesForChangeStatus, weightVars, filterVars,
                            inflightRequests, poolVars, monVars, closeVars, tx>>
          \/ Put(p, "done")

Ping(p) ==
    \/ GetFirst(p, "Ping", FALSE)
    \/ /\ call[p].op = "Ping"
       /\ \/ Send(p, "body", "put")
          \/ Put(p, "done")

CheckAlive(p) ==
    \/ GetFirst(p, "CheckAlive", FALSE)
    \/ /\ call[p].op = "CheckAlive"
       /\ \/ Send(p, "body", "put")
          \/ Put(p, "done")

\* A variant whose error path returns without db.pool.Put(r).
StartStatementLeaking(p) ==
    /\ call[p].pc = "body"
    /\ \/ /\ call' = [call EXCEPT ![p] =
                [@ EXCEPT !.backend = @ + 1, !.res = "result", !.held = FALSE,
                          !.pc = "done"]]
          /\ tx' = [tx EXCEPT ![p] = TRUE]
       \/ /\ call' = [call EXCEPT ![p] =
                [@ EXCEPT !.backend = @ + 1, !.err = Err("backend", 0),
                          !.pc = "done"]]
          /\ tx' = tx
    /\ UNCHANGED <<nodeVars, weightVars, filterVars, inflightRequests,
                   poolVars, monVars, closeVars>>

\* A variant that releases the connection although the Tx now holds it.
StartStatementReleasing(p) ==
    /\ call[p].pc = "body"
    /\ \/ /\ call' = [call EXCEPT ![p] =
                [@ EXCEPT !.backend = @ + 1, !.res = "result", !.pc = "put"]]
          /\ tx' = [tx EXCEPT ![p] = TRUE]
       \/ /\ call' = [call EXCEPT ![p] =
                [@ EXCEPT !.backend = @ + 1, !.err = Err("backend", 0),
                          !.pc = "put"]]
          /\ tx' = tx
    /\ UNCHANGED <<nodeVars, weightVars, filterVars, inflightRequests,
                   poolVars, monVars, closeVars>>

\* conn.Execute(ctx, <start statement>, false): on an error the connection
\* goes back to the pool; otherwise a Tx is returned that holds it.
StartStatement(p) ==
    /\ call[p].pc = "body"
    /\ \/ /\ call' = [call EXCEPT ![p] =
                [@ EXCEPT !.backend = @ + 1, !.res = "result", !.held = FALSE,
                          !.pc = "done"]]
          /\ tx' = [tx EXCEPT ![p] = TRUE]
       \/ /\ call' = [call EXCEPT ![p] =
                [@ EXCEPT !.backend = @ + 1, !.err = Err("backend", 0),
                          !.pc = "put"]]
          /\ tx' = tx
    /\ UNCHANGED <<nodeVars, weightVars, filterVars, inflightRequests,
                   poolVars, monVars, closeVars>>

\* A variant that counts itself in flight like a query.
BeginCounted(p) ==
    \/ ~tx[p] /\ InflightInc(p, "Begin")
    \/ /\ call[p].op = "Begin"
       /\ \/ Get(p, TRUE)
          \/ StartStatement(p)
          \/ Put(p, "done")
          \/ InflightDec(p)

Begin(p) ==
    \/ ~tx[p] /\ GetFirst(p, "Begin", TRUE)
    \/ /\ call[p].op = "Begin"
       /\ \/ StartStatement(p)
          \/ Put(p, "done")

XAStart(p) ==
    \/ ~tx[p] /\ GetFirst(p, "XAStart", TRUE)
    \/ /\ call[p].op = "XAStart"
       /\ \/ StartStatement(p)
          \/ Put(p, "done")

\* The handle's single close (commit or rollback) returns its connection.
TxClose(p) ==
    /\ tx[p]
    /\ tx' = [tx EXCEPT ![p] = FALSE]
    /\ PoolPut
    /\ UNCHANGED <<nodeVars, weightVars, filterVars, inflightRequests,
                   poolCapacity, poolClosed, poolCloseCalls, monVars, closeVars, call>>

\* ------------------------------------------------------------------ NewDB
\* The filter chains of length at most n: each filter passes or rejects.
Chains(n) == UNION {[1..k -> {"pass", "reject"}] : k \in 0..n}

\* NewDB, for any threshold and role: no filter is registered yet.
Init ==
    /\ status = Running
    /\ pingTimesForChangeStatus \in 1..MaxThreshold
    /\ pingCount = 0
    /\ isMaster \in BOOLEAN
    /\ writeWeight = 0
    /\ readWeight = 0
    /\ connectionPreFilters = <<>>
    /\ connectionPostFilters = <<>>
    /\ inflightRequests = 0
    /\ poolAvailable = PoolCap
    /\ poolCapacity = PoolCap
    /\ poolClosed = FALSE
    /\ poolCloseCalls = 0
    /\ monPc = "timer"
    /\ monErr = FALSE
    /\ ticks = <<>>
    /\ failRun = 0
    /\ monPinged = FALSE
    /\ closePc = "idle"
    /\ call = [p \in Procs |-> NoCall]
    /\ tx = [p \in Procs |-> FALSE]
    /\ lastSet = [op |-> Nil, arg |-> 0, w |-> 0, r |-> 0]

\* The health monitor alone, with Close shutting the pool under it.
InitHealth ==
    /\ Init
    /\ isMaster

NextHealth == ping \/ Close

SpecHealth == InitHealth /\ [][NextHealth]_vars

\* The weight setters alone.
InitWeights ==
    /\ Init
    /\ pingTimesForChangeStatus = 1

NextWeights ==
    \E weight \in 0..MaxWeight : SetWriteWeight(weight) \/ SetReadWeight(weight)

SpecWeights == InitWeights /\ [][NextWeights]_vars
\* Callers start from a node with a threshold of one.
InitOps ==
    /\ Init
    /\ pingTimesForChangeStatus = 1
    /\ isMaster

\* A call of one of the two registration functions with a chain of at most
\* n filters.
Register(n) ==
    \E filters \in Chains(n) :
        \/ SetConnectionPreFilters(filters)
        \/ SetConnectionPostFilters(filters)

\* The operations that count themselves in flight.
Counted(p) ==
    \/ UseDB(p)
    \/ ExecuteFieldList(p)
    \/ Query(p)
    \/ QueryDirectly(p)
    \/ ExecuteStmt(p)
    \/ ExecuteSql(p)
    \/ ExecuteSqlDirectly(p)

\* Begin, XAStart and the close of the handle they return.
Transaction(p) ==
    \/ Begin(p)
    \/ XAStart(p)
    \/ TxClose(p)

Operation(p) ==
    \/ Counted(p)
    \/ Ping(p)
    \/ CheckAlive(p)
    \/ Transaction(p)

\* Concurrent callers of the counted operations, with registrations of
\* chains of at most MaxFilters filters at any moment.
NextOps ==
    \/ Register(MaxFilters)
    \/ \E p \in Procs : Counted(p)

SpecOps == InitOps /\ [][NextOps]_vars

\* One caller of the query/execute operations next to registrations of at
\* most MaxChain filters per chain.
InitFilters ==
    /\ Init
    /\ pingTimesForChangeStatus = 1
    /\ isMaster

NextFilters ==
    \/ Register(MaxChain)
    \/ \E p \in {1} : Counted(p)

SpecFilters == InitFilters /\ [][NextFilters]_vars

\* Everything that takes connections from an open pool: the health monitor,
\* one caller of every operation and its transaction handle, next to
\* registrations and to resizes of the pool at any moment.
NextLeases ==
    \/ ping
    \/ Register(MaxFilters)
    \/ \E capacity \in 0..MaxCap : SetCapacity(capacity)
    \/ \E p \in {1} : Operation(p)

SpecLeases == InitOps /\ [][NextLeases]_vars

\* Close next to one caller of the counted operations and of transactions,
\* with registrations and resizes of the pool at any moment.
NextClose ==
    \/ Close
    \/ Register(MaxFilters)
    \/ \E capacity \in 0..MaxCap : SetCapacity(capacity)
    \/ \E p \in {1} : Counted(p) \/ Transaction(p)

SpecClose == InitOps /\ [][NextClose]_vars

\* Concurrent callers of transactions and of one counted operation, next to
\* Close and to resizes of the pool.
NextTx ==
    \/ Close
    \/ \E capacity \in 0..MaxCap : SetCapacity(capacity)
    \/ \E p \in Procs : Transaction(p) \/ QueryDirectly(p)

SpecTx == InitOps /\ [][NextTx]_vars

\* Shutdown: Close next to one caller of counted operations. Close runs on
\* a goroutine of its own, which the Go scheduler does not starve, so a Close
\* step that stays enabled is eventually taken.
NextShutdown ==
    \/ Close
    \/ \E p \in {1} : QueryDirectly(p) \/ ExecuteSqlDirectly(p)

SpecShutdown == InitOps /\ [][NextShutdown]_vars /\ WF_vars(Close)

\* The node as a whole.
Next ==
    \/ ping
    \/ Close
    \/ \E p \in Procs : Operation(p)
    \/ Register(MaxChain)
    \/ \E capacity \in 0..MaxCap : SetCapacity(capacity)
    \/ \E weight \in 0..MaxWeight : SetWriteWeight(weight) \/ SetReadWeight(weight)

Spec == Init /\ [][Next]_vars
\* ================================================================== claims
AbsVal(n) == IF n < 0 THEN -n ELSE n

\* n = k * t for some integer k (t >= 1).
IsMultiple(n, t) == \E k \in -AbsVal(n)..AbsVal(n) : n = k * t

LastTick == ticks[Len(ticks)]

\* C1: the status differs from the one the last completed tick found only
\* if the counter that tick loaded after its increment/decrement was a
\* positive multiple of the threshold; and whenever that counter was a
\* multiple of the threshold (positive, zero or negative) the tick left
\* pingCount at zero.
C1_FlipOnlyOnPositiveMultiple ==
    ticks # <<>> =>
        /\ status # LastTick.st =>
              LastTick.cur > 0 /\ IsMultiple(LastTick.cur, pingTimesForChangeStatus)
        /\ IsMultiple(LastTick.cur, pingTimesForChangeStatus) => pingCount = 0
        /\ ~IsMultiple(LastTick.cur, pingTimesForChangeStatus) =>
              pingCount = LastTick.cur

\* C1 witness: with a threshold above one, a tick whose counter reached the
\* threshold has flipped the status back to Running and reset the counter.
C1_Witness ==
    /\ pingTimesForChangeStatus >= 2
    /\ ticks # <<>>
    /\ LastTick.cur = pingTimesForChangeStatus
    /\ status # LastTick.st
    /\ LastTick.st # Running
    /\ pingCount = 0

\* The last pingTimesForChangeStatus ticks were one run of outcomes that
\* contradict the status the first of them found (failures while Running,
\* successes otherwise).
RunAgainstStart ==
    /\ Len(ticks) = pingTimesForChangeStatus
    /\ \A i \in 1..Len(ticks) : ticks[i].failed = (ticks[1].st = Running)

\* The same, each outcome contradicting the status its own tick found.
RunAgainstEach ==
    /\ Len(ticks) = pingTimesForChangeStatus
    /\ \A i \in 1..Len(ticks) : ticks[i].failed = (ticks[i].st = Running)

\* Within the window the counter reached +threshold and the status is now
\* the opposite of the one the window started from.
RunFlipped ==
    /\ \E i \in 1..Len(ticks) : ticks[i].cur = pingTimesForChangeStatus
    /\ status # ticks[1].st

\* C2 as stated: from any reachable (status, confidence), a run of exactly
\* flipThreshold contradicting outcomes brings the counter to +flipThreshold
\* and flips the status by the end of the run.
C2_Original == RunAgainstStart => RunFlipped

\* C2 as amended: the same, from any reachable (status, confidence) whose
\* confidence is not negative at the start of the run.
C2_FlipWithinThresholdFromNonNegative ==
    (RunAgainstStart \/ RunAgainstEach) /\ ticks[1].c >= 0 => RunFlipped

\* C2 witness: a run of threshold (>= 2) contradicting outcomes that started
\* from a positive counter and flipped the status before its end.
C2_Witness ==
    /\ pingTimesForChangeStatus >= 2
    /\ RunAgainstStart
    /\ ticks[1].c > 0
    /\ RunFlipped
\* ------------------------------------------------------- callers and leases
Callers(S(_)) == Cardinality({p \in Procs : S(p)})

\* An operation that counts itself in flight has started and not returned.
InProgress(p) == call[p].op \in InflightOps /\ ~Returned(p)

\* C3: at every state the in-flight counter equals the number of
\* query/execute operations between their start and their return, on every
\* path: it is positive while any is in progress, each operation's net
\* contribution is zero once it returned, and it is 0 when none is in progress.
C3_InflightCountsOperationsInProgress ==
    /\ inflightRequests = Callers(InProgress)
    /\ \A p \in Procs : InProgress(p) => inflightRequests > 0
    /\ (\A p \in Procs : Returned(p)) => inflightRequests = 0

\* C3 witness: two operations are in flight at once, one of them unwinding
\* from a rejected pre-filter, the other still waiting for a connection.
C3_Witness ==
    \E p, q \in Procs :
        /\ p # q
        /\ InProgress(p) /\ call[p].err.kind = "pre" /\ call[p].pc = "dec"
        /\ InProgress(q) /\ call[q].pc = "get"
        /\ inflightRequests = 2

MonitorHolds == IF monPc \in {"ping", "put"} THEN 1 ELSE 0

Holds(p) == call[p].held

OwnsTx(p) == tx[p]

IsTxStart(p) == call[p].op \in {"Begin", "XAStart"}

\* C4: every connection taken from the pool is either still claimed by the
\* operation or monitor tick that took it, or owned by an open transaction
\* handle, or back in the idle set: idle plus claimed is the pool's size. An
\* operation acquires at most once, releases only what it acquired, and has
\* released it exactly once when it returns, except a Begin/XAStart whose start
\* statement succeeded, which releases nothing; between ticks the monitor
\* holds nothing.
C4_AcquisitionsMatchReleases ==
    /\ poolAvailable + Callers(Holds) + Callers(OwnsTx) + MonitorHolds
          = poolCapacity
    /\ \A p \in Procs :
          /\ call[p].puts <= call[p].gets /\ call[p].gets <= 1
          /\ call[p].pc = "done" =>
                /\ ~call[p].held
                /\ call[p].puts =
                      IF IsTxStart(p) /\ call[p].err = NoErr THEN 0 ELSE call[p].gets

\* C4 witness: the monitor holds the pool's connection for its ping after
\* the caller's failed Begin gave its connection back.
C4_Witness ==
    \E p \in Procs :
        /\ call[p].op = "Begin" /\ call[p].pc = "done"
        /\ call[p].err.kind = "backend"
        /\ call[p].gets = 1 /\ call[p].puts = 1
        /\ monPc = "ping"
        /\ poolAvailable = poolCapacity - 1

\* Connections claimed by anyone but caller p.
ClaimedByOthers(p) ==
    Cardinality({q \in Procs \ {p} : call[q].held})
      + Cardinality({q \in Procs \ {p} : tx[q]})

\* C5: after a Begin or XAStart whose start statement failed (or whose
\* acquisition failed) no handle exists and the caller leaves the pool's
\* availability as it was: idle plus what others claim is the pool's size.
\* After one whose start statement succeeded, availability is one lower for
\* as long as the returned handle is open, and back once it is closed.
C5_BeginAvailability ==
    \A p \in Procs :
        IsTxStart(p) /\ call[p].pc = "done" =>
            /\ call[p].err # NoErr =>
                  ~tx[p] /\ call[p].res = Nil
                         /\ poolAvailable + ClaimedByOthers(p) = poolCapacity
            /\ call[p].err = NoErr =>
                  poolAvailable + ClaimedByOthers(p) =
                      IF tx[p] THEN poolCapacity - 1 ELSE poolCapacity

\* C5 witness: one caller's Begin succeeded and its handle is still open,
\* while another caller's XAStart failed at its start statement.
C5_Witness ==
    \E p, q \in Procs :
        /\ call[p].op = "Begin" /\ call[p].pc = "done"
        /\ call[p].err = NoErr /\ tx[p]
        /\ call[q].op = "XAStart" /\ call[q].pc = "done"
        /\ call[q].err.kind = "backend" /\ ~tx[q]
        /\ poolAvailable = poolCapacity - 1

\* C6: when Close has returned, the pool has been closed, by exactly one
\* call of its close operation, and nothing is in flight; and the pool's
\* close is never invoked a second time.
C6_CloseDrainsThenClosesOnce ==
    /\ poolCloseCalls <= 1
    /\ closePc = "returned" =>
          poolClosed /\ poolCloseCalls = 1
\* --------------------------------------------------------------- filters
FilteredOps == {"Query", "ExecuteStmt", "ExecuteSql"}

\* Some filter of the chain returns an error.
Rejects(chain) == \E i \in DOMAIN chain : chain[i] = "reject"

\* The first filter of the chain that returns an error.
FirstReject(chain) ==
    CHOOSE i \in DOMAIN chain :
        chain[i] = "reject" /\ \A j \in 1..(i - 1) : chain[j] = "pass"

UpTo(n) == [i \in 1..n |-> i]

\* The indexes of the filters a loop invoked, in the order of invocation.
Idxs(inv) == [k \in DOMAIN inv |-> inv[k].idx]

\* Some invoked filter returned an error.
Rejected(inv) == \E k \in DOMAIN inv : inv[k].ret = "reject"

\* The chains now registered are the ones that were registered during the
\* whole of caller p's operation: no chain was stored since it began.
Stable(p) == ~call[p].stored

\* The operation of caller p got its connection and has gone past the place
\* of its pre-filter call.
PastPreFilter(p) ==
    /\ call[p].gets = 1
    /\ call[p].pc \in {"exec", "post", "postf", "put", "dec", "done"}

Leaving(p) == call[p].pc \in {"put", "dec", "done"}

\* C7: in Query, ExecuteStmt and ExecuteSql, when a registered pre-filter
\* returns an error, the backend connection is not invoked for that call, no
\* post-filter runs, and the caller receives that pre-filter's error and no
\* result.
C7_PreFilterErrorPreventsBackend ==
    \A p \in Procs :
        call[p].op \in FilteredOps =>
            /\ Rejected(call[p].pre) =>
                  /\ Leaving(p)
                  /\ call[p].backend = 0
                  /\ call[p].post = <<>>
                  /\ call[p].pre[Len(call[p].pre)].ret = "reject"
                  /\ call[p].err = Err("pre", call[p].pre[Len(call[p].pre)].idx)
                  /\ call[p].res = Nil /\ call[p].warn = 0
            /\ Stable(p) /\ Rejects(connectionPreFilters) /\ PastPreFilter(p) =>
                  /\ Rejected(call[p].pre)
                  /\ call[p].err = Err("pre", FirstReject(connectionPreFilters))

\* C7 witness: with the chain <<pass, reject, ...>> registered beforehand, a
\* Query returned the error of the second pre-filter, with the backend never
\* invoked.
C7_Witness ==
    \E p \in Procs :
        /\ call[p].op = "Query" /\ call[p].pc = "done" /\ Stable(p)
        /\ Len(connectionPreFilters) >= 2
        /\ connectionPreFilters[1] = "pass" /\ connectionPreFilters[2] = "reject"
        /\ call[p].pre = <<Invoked(1, "pass"), Invoked(2, "reject")>>
        /\ call[p].err = Err("pre", 2)
        /\ call[p].backend = 0

\* C8: in Query, ExecuteStmt and ExecuteSql, when every pre-filter passed,
\* the backend call succeeded and a post-filter returns an error, the call
\* has invoked the backend exactly once and returns that post-filter's error
\* with a nil result and a warning count of 0.
C8_PostFilterErrorDiscardsResult ==
    \A p \in Procs :
        call[p].op \in FilteredOps =>
            /\ Rejected(call[p].post) =>
                  /\ Leaving(p)
                  /\ ~Rejected(call[p].pre)
                  /\ call[p].backend = 1
                  /\ call[p].err = Err("post", call[p].post[Len(call[p].post)].idx)
                  /\ call[p].res = Nil
                  /\ call[p].warn = 0
            /\ Stable(p) /\ Leaving(p) /\ call[p].gets = 1
                    /\ ~Rejects(connectionPreFilters)
                    /\ Rejects(connectionPostFilters)
                    /\ call[p].err.kind # "backend" =>
                  /\ Rejected(call[p].post)
                  /\ call[p].err = Err("post", FirstReject(connectionPostFilters))

\* C8 witness: an ExecuteStmt whose registered pre-filters all passed
\* returned the error of its second post-filter after one backend call.
C8_Witness ==
    \E p \in Procs :
        /\ call[p].op = "ExecuteStmt" /\ call[p].pc = "done" /\ Stable(p)
        /\ connectionPreFilters # <<>> /\ ~Rejects(connectionPreFilters)
        /\ Idxs(call[p].pre) = UpTo(Len(connectionPreFilters))
        /\ call[p].post = <<Invoked(1, "pass"), Invoked(2, "reject")>>
        /\ call[p].err = Err("post", 2)
        /\ call[p].backend = 1
        /\ call[p].res = Nil

\* C9 as stated: in UseDB, ExecuteFieldList, Query, ExecuteStmt and
\* ExecuteSql a rejecting pre-filter aborts the operation with the filter's
\* error and without any backend call.
C9_Original ==
    \A p \in Procs :
        call[p].op \in FilteredOps \cup {"UseDB", "ExecuteFieldList"}
                /\ Stable(p) /\ Rejects(connectionPreFilters)
                /\ call[p].gets = 1 /\ call[p].pc = "done" =>
            /\ call[p].backend = 0
            /\ call[p].err = Err("pre", FirstReject(connectionPreFilters))

\* C9 as amended: Query, ExecuteStmt and ExecuteSql run the pre-filter chain
\* after acquiring the connection and before the backend call, so their
\* backend is invoked only after every registered pre-filter passed, and never
\* when one rejects; UseDB and ExecuteFieldList, like the Directly variants,
\* invoke no filter at all and reach the backend whatever the pre-filters
\* would return.
C9_OnlyFilteredOperationsRunPreFilters ==
    \A p \in Procs :
        /\ call[p].op \in FilteredOps =>
              /\ call[p].gets = 0 => call[p].pre = <<>>
              /\ call[p].pc \in {"body", "pre"} => call[p].backend = 0
              /\ call[p].backend > 0 =>
                    /\ ~Rejected(call[p].pre)
                    /\ Stable(p) =>
                          /\ ~Rejects(connectionPreFilters)
                          /\ Idxs(call[p].pre) = UpTo(Len(connectionPreFilters))
              /\ Rejected(call[p].pre) =>
                    call[p].err.kind = "pre" /\ call[p].backend = 0
              /\ Stable(p) /\ Rejects(connectionPreFilters)
                    /\ call[p].pc = "done" /\ call[p].gets = 1 =>
                    call[p].err.kind = "pre" /\ call[p].backend = 0
        /\ call[p].op \in InflightOps \ FilteredOps =>
              /\ call[p].pre = <<>> /\ call[p].post = <<>>
              /\ call[p].err.kind \notin {"pre", "post"}
              /\ call[p].pc = "done" /\ call[p].gets = 1 => call[p].backend >= 1

\* C9 witness: a UseDB returned without error after its backend call
\* although the first registered pre-filter rejects.
C9_Witness ==
    \E p \in Procs :
        /\ call[p].op = "UseDB" /\ call[p].pc = "done" /\ Stable(p)
        /\ connectionPreFilters # <<>> /\ connectionPreFilters[1] = "reject"
        /\ call[p].backend = 1
        /\ call[p].err = NoErr

\* --------------------------------------------------------------- weights
\* C10: after SetWriteWeight(w) the write weight is w on a master and what
\* it was on a replica, and the read weight is what it was; after
\* SetReadWeight(w) the read weight is w, whatever the role, and the write
\* weight is what it was.
C10_WeightSetters ==
    /\ lastSet.op = "SetWriteWeight" =>
          /\ writeWeight = IF isMaster THEN lastSet.arg ELSE lastSet.w
          /\ readWeight = lastSet.r
    /\ lastSet.op = "SetReadWeight" =>
          /\ readWeight = lastSet.arg
          /\ writeWeight = lastSet.w

\* C10 witness: on a replica with a read weight set, SetWriteWeight was
\* called with a weight other than the write weight and changed nothing.
C10_Witness ==
    /\ ~isMaster
    /\ lastSet.op = "SetWriteWeight"
    /\ lastSet.arg # lastSet.w
    /\ lastSet.r > 0
    /\ writeWeight = lastSet.w
\* --------------------------------------------------------- field lists
\* C11: an ExecuteFieldList that acquired its connection and whose
\* field-list request and column-definition read both succeeded returns the
\* column definitions it read, whatever their number, with a nil error: it
\* does not panic and its result is the field list.
C11_FieldListReturnsColumns ==
    \A p \in Procs :
        call[p].op = "ExecuteFieldList" /\ call[p].pc \in {"put", "dec", "done"}
                /\ call[p].gets = 1 /\ call[p].err = NoErr =>
            ~call[p].panicked /\ call[p].res = "fields"
\* ------------------------------------------------------- exclusive leases
\* C12: while transaction handles are open, their connections are outside
\* the idle set: the idle count is never above the pool's size less the open
\* handles and never negative, so operations in progress, the monitor's tick
\* and open handles together never hold more connections than the pool has.
C12_HandleOwnsConnectionExclusively ==
    /\ poolAvailable >= 0
    /\ poolAvailable <= poolCapacity - Callers(OwnsTx)
    /\ Callers(Holds) + MonitorHolds <= poolCapacity - Callers(OwnsTx)

\* C12 witness: the pool was resized to two connections; one is owned by an
\* open handle and the monitor holds the other for its ping, so that the
\* caller's next operation waits for a connection: nothing is idle.
C12_Witness ==
    \E p \in Procs :
        /\ poolCapacity = PoolCap + 1
        /\ tx[p] /\ Callers(OwnsTx) = 1
        /\ call[p].op = "QueryDirectly" /\ call[p].pc = "get"
        /\ monPc = "ping"
        /\ ~poolClosed
        /\ poolAvailable = 0
        /\ Callers(Holds) = 0
\* ------------------------------------------------- manual liveness checks
\* C13: a step of a manual liveness check (Ping, CheckAlive) leaves the
\* status and the confidence counter as they were, whatever its outcome; the
\* only step that changes either is the health monitor's deferred vote.
C13_ManualChecksDoNotVote ==
    [][ /\ (\E p \in Procs : Ping(p) \/ CheckAlive(p)) =>
              status' = status /\ pingCount' = pingCount
        /\ (status' # status \/ pingCount' # pingCount) => PingVote ]_vars

\* C13 witness: a manual Ping returned its ping's error while the node is
\* still Running with a zero counter and the monitor has not voted yet,
\* under a threshold of one, where a single counted failure would have
\* flipped the status.
C13_Witness ==
    \E p \in Procs :
        /\ call[p].op = "Ping" /\ call[p].pc = "done"
        /\ call[p].err.kind = "backend"
        /\ call[p].gets = 1 /\ call[p].puts = 1
        /\ pingTimesForChangeStatus = 1
        /\ status = Running /\ pingCount = 0 /\ ticks = <<>>
\* ------------------------------------------------------ acquisition failure
AcquireFailed(p) == call[p].err.kind = "acquire"

\* C14: an operation whose pool acquisition failed returns that error with
\* no second acquisition, no filter and no backend call, nothing released to
\* the pool, and, once returned, its own increment of the in-flight counter
\* taken back (the counter counts exactly the other callers in progress).
C14_AcquisitionFailureReturnsCleanly ==
    \A p \in Procs :
        AcquireFailed(p) =>
            /\ call[p].pc \in {"dec", "done"}
            /\ call[p].pc = "dec" => call[p].op \in InflightOps
            /\ call[p].gets = 0 /\ call[p].puts = 0 /\ ~call[p].held
            /\ call[p].pre = <<>> /\ call[p].post = <<>>
            /\ call[p].backend = 0 /\ call[p].res = Nil
            /\ IsTxStart(p) => ~tx[p]
            /\ call[p].pc = "done" =>
                   inflightRequests = Callers(InProgress) /\ ~InProgress(p)

\* C14 witness: with a pre-filter and a post-filter registered, a Query has
\* returned an acquisition error from a closed pool, and the in-flight
\* counter is back to zero.
C14_Witness ==
    \E p \in Procs :
        /\ call[p].op = "Query" /\ call[p].pc = "done" /\ AcquireFailed(p)
        /\ connectionPreFilters # <<>> /\ connectionPostFilters # <<>>
        /\ Stable(p)
        /\ poolClosed /\ inflightRequests = 0
\* ---------------------------------------------- closing under concurrency
\* C15: whenever Close invokes the pool's close, the in-flight counter is
\* zero at that moment, under every interleaving with the counted operations.
C15_PoolClosedOnlyWhenDrained ==
    [][CloseBody => inflightRequests = 0]_vars
\* No counted operation is in progress and the in-flight counter is zero.
Quiet == inflightRequests = 0 /\ \A p \in Procs : Returned(p)

\* C16: every call of Close returns: if from some point on the in-flight
\* counter is zero and no operation is started, a Close that is running
\* eventually returns.
C16_CloseTerminates ==
    <>[]Quiet => [](closePc # "idle" => <>(closePc = "returned"))
\* ------------------------------------------------------------ filter order
\* What a chain must do: invoke its filters once each in list order up to
\* and including the first that fails, and return that filter's error, or
\* invoke all of them and return none.
ChainOutcome(chain) ==
    IF Rejects(chain)
      THEN [invoked |-> UpTo(FirstReject(chain)), err |-> FirstReject(chain)]
      ELSE [invoked |-> UpTo(Len(chain)), err |-> 0]

\* The operation of caller p has gone past the place of its post-filter call.
PastPostFilter(p) ==
    /\ call[p].gets = 1 /\ Leaving(p)
    /\ ~Rejected(call[p].pre) /\ call[p].err.kind # "backend"
    /\ call[p].backend = 1

\* C17: in the operations that run filters, each chain is invoked in
\* registration order and stops at the first filter that fails: for a
\* registered chain f1..fn that is not replaced during the operation,
\* exactly f1..fk are invoked, once each and in order, where fk is the first
\* to fail (all of them when none fails), and the caller gets fk's error
\* (none when none fails). The indexes invoked are 1, 2, 3, ... in every case.
C17_FiltersRunInOrderUntilFirstError ==
    \A p \in Procs :
        call[p].op \in FilteredOps =>
            /\ Idxs(call[p].pre) = UpTo(Len(call[p].pre))
            /\ Idxs(call[p].post) = UpTo(Len(call[p].post))
            /\ \A k \in 1..(Len(call[p].pre) - 1) : call[p].pre[k].ret = "pass"
            /\ \A k \in 1..(Len(call[p].post) - 1) : call[p].post[k].ret = "pass"
            /\ Stable(p) =>
                 /\ ~call[p].panicked
                 /\ PastPreFilter(p) =>
                      LET o == ChainOutcome(connectionPreFilters) IN
                        /\ Idxs(call[p].pre) = o.invoked
                        /\ o.err # 0 => call[p].err = Err("pre", o.err)
                        /\ o.err = 0 => call[p].err.kind # "pre"
                 /\ PastPostFilter(p) =>
                      LET o == ChainOutcome(connectionPostFilters) IN
                        /\ Idxs(call[p].post) = o.invoked
                        /\ o.err # 0 => call[p].err = Err("post", o.err)
                        /\ o.err = 0 => call[p].err = NoErr

\* C17 witness: with both chains registered beforehand, two pre-filters
\* passed in order, and of two post-filters the first failed: it was
\* invoked, the second was not, and the caller got the first's error.
C17_Witness ==
    \E p \in Procs :
        /\ call[p].op = "Query" /\ call[p].pc = "done" /\ Stable(p)
        /\ connectionPreFilters = <<"pass", "pass">>
        /\ connectionPostFilters = <<"reject", "pass">>
        /\ Idxs(call[p].pre) = <<1, 2>>
        /\ Idxs(call[p].post) = <<1>>
        /\ call[p].err = Err("post", 1)

\* A chain stored while an operation is in its loop can make the loop's
\* index expression panic; the statement of C17 is about chains that stay.
RacingRegistrationSeen ==
    \E p \in Procs :
        call[p].op \in FilteredOps /\ call[p].panicked /\ call[p].stored

\* ------------------------------------------------------ confidence bounds
\* C18: after every tick of the health monitor the confidence counter lies
\* strictly between minus the threshold and the threshold; it is 0 under a
\* threshold of one, and 0 right after a tick that flipped the status.
C18_ConfidenceWithinThreshold ==
    /\ pingCount > -pingTimesForChangeStatus
    /\ pingCount < pingTimesForChangeStatus
    /\ pingTimesForChangeStatus = 1 => pingCount = 0
    /\ ticks # <<>> /\ status # LastTick.st => pingCount = 0

\* C18 witness: under the largest threshold a tick has left the counter at
\* its lowest value, one above minus the threshold, and an earlier tick had
\* it at its highest, one below the threshold.
C18_Witness ==
    /\ pingTimesForChangeStatus = MaxThreshold
    /\ monPc = "timer"
    /\ Len(ticks) = MaxThreshold
    /\ pingCount = -(pingTimesForChangeStatus - 1)
    /\ \E i \in DOMAIN ticks : ticks[i].c = pingTimesForChangeStatus - 1
\* ------------------------------------------- acquisition failure in a tick
\* C19: a tick of the health monitor whose pool acquisition fails issues no
\* ping and releases nothing, and its vote is that of a failed ping; and
\* after 2 * threshold - 1 consecutive ticks that failed (acquisition or
\* ping) the status is not Running, and is not Running for as long as the
\* failures go on.
C19_FailedAcquisitionVotesAsFailure ==
    /\ monPc = "vote" /\ ~monPinged =>
          monErr /\ poolClosed /\ poolAvailable = poolCapacity
    /\ monPc = "timer" /\ ticks # <<>> /\ ~monPinged =>
          /\ LastTick.failed
          /\ LastTick.cur = Vote(LastTick.st, LastTick.c, TRUE)
          /\ pingCount = CountAfter(LastTick.cur, pingTimesForChangeStatus)
          /\ status = StatusAfter(LastTick.st, LastTick.cur,
                                  pingTimesForChangeStatus)
    /\ monPc = "timer" /\ failRun >= 2 * pingTimesForChangeStatus - 1 =>
          status # Running

\* C19 witness: with the pool closed, 2 * threshold - 1 ticks in a row have
\* failed at the acquisition, the last one found the node already not
\* Running, and the node is still not Running.
C19_Witness ==
    /\ pingTimesForChangeStatus >= 2
    /\ poolClosed /\ monPc = "timer" /\ ~monPinged
    /\ failRun = 2 * pingTimesForChangeStatus - 1
    /\ Len(ticks) = pingTimesForChangeStatus
    /\ \A i \in DOMAIN ticks : ticks[i].failed
    /\ LastTick.st # Running
    /\ status # Running
\* ------------------------------------------- transactions and the counter
\* C20: no step of Begin or XAStart changes the in-flight counter, on any
\* path, so connections owned by open transaction handles are not counted;
\* and Close's test passes on a zero counter whether or not a handle is open.
C20_TransactionsAreNotInFlight ==
    [][ /\ (\E p \in Procs : Begin(p) \/ XAStart(p)) =>
              inflightRequests' = inflightRequests
        /\ CloseTest /\ inflightRequests = 0 /\ Callers(OwnsTx) > 0 =>
              closePc' = "close" ]_vars

\* C20 witness: a Begin succeeded and its handle still owns the only
\* connection, the in-flight counter is zero, and Close has closed the pool.
C20_Witness ==
    \E p \in Procs :
        /\ call[p].op = "Begin" /\ call[p].pc = "done" /\ call[p].err = NoErr
        /\ tx[p] /\ Callers(OwnsTx) = poolCapacity
        /\ poolAvailable = 0
        /\ inflightRequests = 0
        /\ poolClosed /\ poolCloseCalls >= 1
====
